---- MODULE Spec2Model ----
(***************************************************************************)
(* Environment variable collections of EnvVariablesServerImpl and their    *)
(* merge (MergedEnvironmentVariableCollectionImpl).                        *)
(*                                                                         *)
(* A JavaScript Map is modelled as a sequence of <<key, value>> pairs with *)
(* distinct keys, in insertion order.  A plain object used as a dictionary *)
(* (the process environment) is modelled the same way.                     *)
(***************************************************************************)
EXTENDS Integers, Sequences, FiniteSets, TLC

VARIABLES
    collections,       \* EnvVariablesServerImpl.collections (line 41)
    mergedCollection,  \* EnvVariablesServerImpl.mergedCollection, its map (line 42)
    isWindows,         \* the platform flag imported from common/os (line 31)
    env,               \* the object handed to applyToProcessEnvironment (line 168)
    snapshot,          \* history: what env held when it was handed over
    applied            \* history: applyToProcessEnvironment has returned

vars == <<collections, mergedCollection, isWindows, env, snapshot, applied>>

(***************************************************************************)
(* Generic sequence helpers.                                               *)
(***************************************************************************)
Range(s) == {s[i] : i \in 1..Len(s)}

Reverse(s) == [i \in 1..Len(s) |-> s[Len(s) + 1 - i]]

(***************************************************************************)
(* Map operations (ECMAScript Map: insertion ordered, set on an existing   *)
(* key keeps the key's position, delete closes the gap).                   *)
(***************************************************************************)
MapKeys(m) == [i \in 1..Len(m) |-> m[i][1]]

MapHas(m, k) == \E i \in 1..Len(m) : m[i][1] = k

MapIndex(m, k) == CHOOSE i \in 1..Len(m) : m[i][1] = k

MapGet(m, k) == m[MapIndex(m, k)][2]

\* a slip: a key that is set again moves to the end
MapSetMovesToEnd(m, k, v) == Append(SelectSeq(m, LAMBDA p : p[1] # k), <<k, v>>)

MapSet(m, k, v) ==
    IF MapHas(m, k)
    THEN [m EXCEPT ![MapIndex(m, k)] = <<k, v>>]
    ELSE Append(m, <<k, v>>)

\* a slip: removal by position that does not test whether the key was found
\* (splice(indexOf(k), 1) with indexOf = -1 removes the last element)
MapDeleteByIndex(m, k) ==
    IF MapHas(m, k) THEN SelectSeq(m, LAMBDA p : p[1] # k)
    ELSE SubSeq(m, 1, Len(m) - 1)

MapDelete(m, k) == SelectSeq(m, LAMBDA p : p[1] # k)

RECURSIVE NewMapFrom(_, _)
NewMapFrom(m, list) ==
    IF list = <<>> THEN m
    ELSE NewMapFrom(MapSet(m, Head(list)[1], Head(list)[2]), Tail(list))

\* a slip: the first mutator of a variable named twice is kept
NewMapFirstWins(list) ==
    SelectSeq([i \in 1..Len(list) |->
                  IF \E j \in 1..(i - 1) : list[j][1] = list[i][1] THEN <<>> ELSE list[i]],
              LAMBDA p : p # <<>>)

NewMap(list) == NewMapFrom(<<>>, list)

(***************************************************************************)
(* EnvironmentVariableMutatorType                                          *)
(***************************************************************************)
Replace == 1
AppendType == 2
Prepend == 3

EnvironmentVariableMutatorType == {Replace, AppendType, Prepend}

(***************************************************************************)
(* Data of the program.                                                    *)
(*   EnvironmentVariableMutator                [value, type]               *)
(*   EnvironmentVariableCollectionWithPersistence [persistent, map]        *)
(*   ExtensionOwnedEnvironmentVariableMutator  [extensionIdentifier,       *)
(*                                              value, type]               *)
(* Variable names are sequences of characters so that toLowerCase acts on  *)
(* them; values are strings, joined with \o.                               *)
(***************************************************************************)
EnvironmentVariableMutator(value, type) == [value |-> value, type |-> type]

ExtensionOwnedEnvironmentVariableMutator(extensionIdentifier, mutator) ==
    [extensionIdentifier |-> extensionIdentifier,
     value |-> mutator.value,
     type |-> mutator.type]

(***************************************************************************)
(* MergedEnvironmentVariableCollectionImpl.constructor                     *)
(***************************************************************************)
\* a slip: entry.push(x) in place of entry.unshift(x)
Push(entry, x) == Append(entry, x)

\* entry.unshift(x)
Unshift(entry, x) == <<x>> \o entry

\* a slip: the "ignore" branch is never taken
NeverIgnore(entry) == FALSE

\* the guard of the "ignore" branch: the first item of the entry is Replace
HeadIsReplace(entry) == Len(entry) > 0 /\ entry[1].type = Replace

\* one pass of the while loop for the entry <<variable, mutator>> of the
\* collection of extensionIdentifier (unshift changes the array the map holds)
MergeEntry(map, extensionIdentifier, variable, mutator) ==
    LET created == IF MapHas(map, variable) THEN map ELSE MapSet(map, variable, <<>>)
        at == MapIndex(created, variable)
        entry == created[at][2]
    IN  IF HeadIsReplace(entry)
        THEN created
        ELSE [created EXCEPT ![at] =
                 <<variable,
                   Unshift(entry,
                           ExtensionOwnedEnvironmentVariableMutator(extensionIdentifier, mutator))>>]

\* the while loop over collection.map.entries()
RECURSIVE MergeCollection(_, _, _)
MergeCollection(map, extensionIdentifier, entries) ==
    IF entries = <<>> THEN map
    ELSE MergeCollection(
             MergeEntry(map, extensionIdentifier, Head(entries)[1], Head(entries)[2]),
             extensionIdentifier, Tail(entries))

\* collections.forEach(...)
RECURSIVE MergeAll(_, _)
MergeAll(map, colls) ==
    IF colls = <<>> THEN map
    ELSE MergeAll(MergeCollection(map, Head(colls)[1], Head(colls)[2].map), Tail(colls))

MergedEnvironmentVariableCollectionImpl(colls) == MergeAll(<<>>, colls)

resolveMergedCollection(colls) == MergedEnvironmentVariableCollectionImpl(colls)

updateCollections(colls) == resolveMergedCollection(colls)

(***************************************************************************)
(* String.prototype.toLowerCase on the letters the model uses.             *)
(***************************************************************************)
UpperCaseLetters == <<"A", "B", "F", "H", "O", "P", "R", "T">>
LowerCaseLetters == <<"a", "b", "f", "h", "o", "p", "r", "t">>

LowerChar(c) ==
    IF \E i \in 1..Len(UpperCaseLetters) : UpperCaseLetters[i] = c
    THEN LowerCaseLetters[CHOOSE i \in 1..Len(UpperCaseLetters) : UpperCaseLetters[i] = c]
    ELSE c

toLowerCase(name) == [i \in 1..Len(name) |-> LowerChar(name[i])]

(***************************************************************************)
(* The process environment { [key: string]: string | null }: a sequence of *)
(* <<key, value>> pairs in property order; a value is Null or Str(s).      *)
(***************************************************************************)
Null == [null |-> TRUE, value |-> ""]
Str(s) == [null |-> FALSE, value |-> s]

\* env[key] || ''   (undefined, null and '' are falsy)
OrEmpty(e, key) ==
    IF MapHas(e, key) /\ ~MapGet(e, key).null THEN MapGet(e, key).value ELSE ""

(***************************************************************************)
(* MergedEnvironmentVariableCollectionImpl.applyToProcessEnvironment       *)
(***************************************************************************)
\* Object.keys(env).forEach(e => lowerToActualVariableNames[e.toLowerCase()] = e)
RECURSIVE LowerToActualFrom(_, _)
LowerToActualFrom(lower, keys) ==
    IF keys = <<>> THEN lower
    ELSE LowerToActualFrom(MapSet(lower, toLowerCase(Head(keys)), Head(keys)), Tail(keys))

lowerToActualVariableNames(e) == LowerToActualFrom(<<>>, MapKeys(e))

\* a slip: the case-matched key is not looked up
ActualVariableExact(windows, lower, variable) == variable

\* isWindows ? lowerToActualVariableNames[variable.toLowerCase()] || variable : variable
\* (an undefined entry and the empty name are falsy)
ActualVariable(windows, lower, variable) ==
    IF windows /\ MapHas(lower, toLowerCase(variable))
               /\ MapGet(lower, toLowerCase(variable)) # <<>>
    THEN MapGet(lower, toLowerCase(variable))
    ELSE variable

\* a slip: the bodies of the Append and Prepend cases exchanged
ApplyMutatorSwapped(e, actualVariable, mutator) ==
    CASE mutator.type = AppendType ->
             MapSet(e, actualVariable, Str(mutator.value \o OrEmpty(e, actualVariable)))
      [] mutator.type = Prepend ->
             MapSet(e, actualVariable, Str(OrEmpty(e, actualVariable) \o mutator.value))
      [] mutator.type = Replace ->
             MapSet(e, actualVariable, Str(mutator.value))
      [] OTHER -> e

\* the switch on mutator.type
ApplyMutator(e, actualVariable, mutator) ==
    CASE mutator.type = AppendType ->
             MapSet(e, actualVariable, Str(OrEmpty(e, actualVariable) \o mutator.value))
      [] mutator.type = Prepend ->
             MapSet(e, actualVariable, Str(mutator.value \o OrEmpty(e, actualVariable)))
      [] mutator.type = Replace ->
             MapSet(e, actualVariable, Str(mutator.value))
      [] OTHER -> e

\* mutators.forEach(...)
RECURSIVE ApplyMutators(_, _, _)
ApplyMutators(e, actualVariable, mutators) ==
    IF mutators = <<>> THEN e
    ELSE ApplyMutators(ApplyMutator(e, actualVariable, Head(mutators)),
                       actualVariable, Tail(mutators))

\* this.map.forEach((mutators, variable) => ...)
RECURSIVE ApplyEntries(_, _, _, _)
ApplyEntries(e, windows, lower, entries) ==
    IF entries = <<>> THEN e
    ELSE ApplyEntries(
             ApplyMutators(e, ActualVariable(windows, lower, Head(entries)[1]),
                           Head(entries)[2]),
             windows, lower, Tail(entries))

applyToProcessEnvironment(map, windows, e) ==
    ApplyEntries(e, windows,
                 IF windows THEN lowerToActualVariableNames(e) ELSE <<>>,
                 map)

(***************************************************************************)
(* Inputs of the operations.                                               *)
(*                                                                         *)
(* Three extensions contribute; each offers lists of at most two entries   *)
(* over two variable names that differ only in letter case (so that they   *)
(* are two variables on a case-sensitive platform and meet in one on a     *)
(* case-insensitive one), with every mutator type.  An extension always    *)
(* uses its own value and its own persistence flag, which keeps the value  *)
(* of every contributor recognisable in a concatenation.  The registry     *)
(* holds at most MaxMutators mutators in all.                              *)
(***************************************************************************)
MaxMutators == 3

ExtensionIdentifiers == {"ext1", "ext2", "ext3"}

PATH == <<"P", "A", "T", "H">>
Path == <<"P", "a", "t", "h">>

VariableNames == {PATH, Path}

ValueOf(extensionIdentifier) ==
    CASE extensionIdentifier = "ext1" -> "a"
      [] extensionIdentifier = "ext2" -> "b"
      [] OTHER -> "c"

PersistentOf(extensionIdentifier) == extensionIdentifier # "ext2"

MutatorsOf(extensionIdentifier) ==
    {EnvironmentVariableMutator(ValueOf(extensionIdentifier), t) :
        t \in EnvironmentVariableMutatorType}

EntriesOf(extensionIdentifier) == VariableNames \X MutatorsOf(extensionIdentifier)

\* the lists an extension offers (a list may name a variable twice)
ListsOf ==
    [x \in ExtensionIdentifiers |->
        {<<>>}
        \cup {<<e>> : e \in EntriesOf(x)}
        \cup {<<e, f>> : e \in EntriesOf(x), f \in EntriesOf(x)}]

\* SerializableEnvironmentVariableCollection = [string, EnvironmentVariableMutator][]
SerializableCollections(extensionIdentifier) == ListsOf[extensionIdentifier]

RECURSIVE TotalMutators(_)
TotalMutators(colls) ==
    IF colls = <<>> THEN 0 ELSE Len(Head(colls)[2].map) + TotalMutators(Tail(colls))

(***************************************************************************)
(* EnvVariablesServerImpl: the registry and its merged collection.         *)
(* The merge never reads the platform flag, so Spec fixes it; SpecApply    *)
(* below lets it range over both platforms.                                *)
(***************************************************************************)
Init ==
    /\ collections = <<>>
    /\ mergedCollection = resolveMergedCollection(<<>>)
    /\ isWindows = FALSE
    /\ env = <<>>
    /\ snapshot = <<>>
    /\ applied = FALSE

\* const translatedCollection = { persistent, map: new Map(collection) }
translatedCollection(persistent, collection) ==
    [persistent |-> persistent, map |-> NewMap(collection)]

\* the registry after this.collections.set(extensionIdentifier, translatedCollection)
SetCollections(colls, extensionIdentifier, persistent, collection) ==
    MapSet(colls, extensionIdentifier, translatedCollection(persistent, collection))

\* updateCollections reads this.collections after the registry was changed
set(extensionIdentifier, persistent, collection) ==
    /\ collections' = SetCollections(collections, extensionIdentifier, persistent, collection)
    /\ TotalMutators(collections') <= MaxMutators
    /\ mergedCollection' = updateCollections(collections')
    /\ UNCHANGED <<isWindows, env, snapshot, applied>>

\* a slip: delete without the call of updateCollections
deleteWithoutUpdate(extensionIdentifier) ==
    /\ collections' = MapDelete(collections, extensionIdentifier)
    /\ UNCHANGED <<mergedCollection, isWindows, env, snapshot, applied>>

delete(extensionIdentifier) ==
    /\ collections' = MapDelete(collections, extensionIdentifier)
    /\ mergedCollection' = updateCollections(collections')
    /\ UNCHANGED <<isWindows, env, snapshot, applied>>

Set ==
    \E x \in ExtensionIdentifiers :
        \E c \in SerializableCollections(x) : set(x, PersistentOf(x), c)

Delete == \E x \in ExtensionIdentifiers : delete(x)

Next == Set \/ Delete

Spec == Init /\ [][Next]_vars

(***************************************************************************)
(* applyToProcessEnvironment on a merged collection of the server.         *)
(* SpecApply starts from any registry the operations above can build from  *)
(* the inputs (with its merged collection), on either platform, with an    *)
(* environment handed in by the caller; its one step is the call.          *)
(***************************************************************************)
\* the collections set(x, ...) can store for x
CollectionsOf(extensionIdentifier) ==
    {[persistent |-> PersistentOf(extensionIdentifier), map |-> NewMap(c)] :
        c \in SerializableCollections(extensionIdentifier)}

\* the registries that hold the contributors ids, in this order, with at most
\* room mutators in all
RECURSIVE RegistriesOver(_, _)
RegistriesOver(ids, room) ==
    IF ids = <<>> THEN {<<>>}
    ELSE UNION {{<<<<Head(ids), coll>>>> \o rest :
                    rest \in RegistriesOver(Tail(ids), room - Len(coll.map))} :
                coll \in {c \in CollectionsOf(Head(ids)) : Len(c.map) <= room}}

\* the orders in which contributors may stand in the registry at the call:
\* some of ext1, ext2, ext3 in this order (a registry in another order is one
\* of these with the extensions renamed, values included)
InOrder == <<"ext1", "ext2", "ext3">>

IdentifierOrders ==
    {ids \in UNION {[1..n -> ExtensionIdentifiers] : n \in 0..Len(InOrder)} :
        \A i \in 1..Len(ids) : \A j \in (i + 1)..Len(ids) :
            \E p \in 1..Len(InOrder) : \E q \in (p + 1)..Len(InOrder) :
                ids[i] = InOrder[p] /\ ids[j] = InOrder[q]}

Registries == UNION {RegistriesOver(ids, MaxMutators) : ids \in IdentifierOrders}

\* what a key of the environment may hold: null, the empty string, a string
EnvValues == {Null, Str(""), Str("x")}

\* environments with no key, with one key, and with both keys (which differ
\* only in letter case) in either property order
Snapshots ==
    {<<>>}
    \cup {<<<<k, v>>>> : k \in VariableNames, v \in EnvValues}
    \cup {<<<<PATH, Str("x")>>, <<Path, Str("y")>>>>, <<<<Path, Str("y")>>, <<PATH, Str("x")>>>>}

InitApply ==
    /\ collections \in Registries
    /\ mergedCollection = resolveMergedCollection(collections)
    /\ isWindows \in BOOLEAN
    /\ env \in Snapshots
    /\ snapshot = env
    /\ applied = FALSE

Apply ==
    /\ ~applied
    /\ env' = applyToProcessEnvironment(mergedCollection, isWindows, env)
    /\ applied' = TRUE
    /\ UNCHANGED <<collections, mergedCollection, isWindows, snapshot>>

NextApply == Apply

SpecApply == InitApply /\ [][NextApply]_vars

(***************************************************************************)
(* Notions the properties are stated in.                                   *)
(***************************************************************************)
\* the contributors that have a mutator for variable, in registry iteration
\* order, each as <<extensionIdentifier, mutator>>
RECURSIVE Holders(_, _)
Holders(colls, variable) ==
    IF colls = <<>> THEN <<>>
    ELSE (IF MapHas(Head(colls)[2].map, variable)
          THEN <<<<Head(colls)[1], MapGet(Head(colls)[2].map, variable)>>>>
          ELSE <<>>) \o Holders(Tail(colls), variable)

\* a list of holders cut off after (and including) the first Replace
UpToFirstReplace(holders) ==
    IF \E i \in 1..Len(holders) : holders[i][2].type = Replace
    THEN SubSeq(holders, 1,
                CHOOSE i \in 1..Len(holders) :
                    /\ holders[i][2].type = Replace
                    /\ \A j \in 1..(i - 1) : holders[j][2].type # Replace)
    ELSE holders

Tagged(holders) ==
    [i \in 1..Len(holders) |->
        [extensionIdentifier |-> holders[i][1],
         value |-> holders[i][2].value,
         type |-> holders[i][2].type]]

ExpectedEntry(colls, variable) == Reverse(Tagged(UpToFirstReplace(Holders(colls, variable))))

\* C1: for every variable V the merged entry is the mutators for V of the
\* contributors in registry iteration order, cut off after the first Replace,
\* reversed and tagged with contributor id, kind and value; V is a key of the
\* merged collection exactly when some contributor has a mutator for V, and no
\* merged entry is empty.
C1_MergedEntryIsReversedPrefix ==
    /\ \A v \in VariableNames :
          /\ MapHas(mergedCollection, v) <=> Holders(collections, v) # <<>>
          /\ MapHas(mergedCollection, v) =>
                MapGet(mergedCollection, v) = ExpectedEntry(collections, v)
    /\ \A i \in 1..Len(mergedCollection) :
          /\ mergedCollection[i][1] \in VariableNames
          /\ mergedCollection[i][2] # <<>>

\* a variable with three holders, the second of which is the first Replace, so
\* that the third is cut off and the first two appear reversed
C1_Witness ==
    \E v \in VariableNames :
        LET h == Holders(collections, v)
        IN  /\ Len(h) = 3
            /\ h[1][2].type # Replace
            /\ h[2][2].type = Replace
            /\ Len(MapGet(mergedCollection, v)) = 2

\* C2: between operations the merged collection is the merge of the current
\* registry.
C2_MergedIsMergeOfRegistry ==
    mergedCollection = MergedEnvironmentVariableCollectionImpl(collections)

\* the registry holds two contributors, one of which has no mutator, and the
\* merged collection shows the other
C2_Witness ==
    /\ Len(collections) = 2
    /\ \E i \in 1..2 : collections[i][2].map = <<>>
    /\ Len(mergedCollection) = 1

AllAppendOrPrepend(colls, variable) ==
    /\ Holders(colls, variable) # <<>>
    /\ \A i \in 1..Len(Holders(colls, variable)) :
          Holders(colls, variable)[i][2].type # Replace

LastHolder(colls, variable) == Holders(colls, variable)[Len(Holders(colls, variable))]

\* C3 (as stated): after a set call of contributor x that gives x a mutator for
\* a variable all of whose current contributors use Append or Prepend, x is the
\* contributor whose latest set call is the most recent, so the head of the
\* merged entry is x's mutator, also when x was already registered.
C3_HeadIsLatestSetter ==
    [][\A x \in ExtensionIdentifiers : \A c \in SerializableCollections(x) :
          set(x, PersistentOf(x), c) =>
             \A v \in VariableNames :
                (MapHas(NewMap(c), v) /\ AllAppendOrPrepend(collections', v)) =>
                    MapGet(mergedCollection', v)[1] =
                        ExtensionOwnedEnvironmentVariableMutator(x, MapGet(NewMap(c), v))]_vars

\* C3 (amended): for every variable whose current contributors all use Append
\* or Prepend, the head of the merged entry is the mutator of the contributor
\* that comes last in registry iteration order among those holding a mutator
\* for the variable.
C3_HeadIsLastInRegistryOrder ==
    \A v \in VariableNames :
        AllAppendOrPrepend(collections, v) =>
            MapGet(mergedCollection, v)[1] =
                ExtensionOwnedEnvironmentVariableMutator(
                    LastHolder(collections, v)[1], LastHolder(collections, v)[2])

\* three contributors hold Append or Prepend mutators for one variable
C3_Witness ==
    \E v \in VariableNames :
        /\ AllAppendOrPrepend(collections, v)
        /\ Len(Holders(collections, v)) = 3
        /\ Len(MapGet(mergedCollection, v)) = 3

\* the position of a contributor in registry iteration order
RegistryIndex(colls, extensionIdentifier) == MapIndex(colls, extensionIdentifier)

\* C4: in every merged entry a Replace occurs only at index 0 (so at most
\* once), and then no contributor that comes after the Replace's contributor
\* in registry order has a mutator in the entry.
C4_ReplaceOnlyAtHead ==
    \A k \in 1..Len(mergedCollection) :
        LET entry == mergedCollection[k][2]
        IN  /\ \A i \in 1..Len(entry) : entry[i].type = Replace => i = 1
            /\ HeadIsReplace(entry) =>
                  \A i \in 1..Len(entry) :
                      /\ MapHas(collections, entry[i].extensionIdentifier)
                      /\ RegistryIndex(collections, entry[i].extensionIdentifier)
                            <= RegistryIndex(collections, entry[1].extensionIdentifier)

\* an entry headed by a Replace that follows an earlier contributor's mutator,
\* while a contributor after the Replace's holds a mutator that was left out
C4_Witness ==
    \E k \in 1..Len(mergedCollection) :
        LET entry == mergedCollection[k][2]
        IN  /\ Len(entry) = 2
            /\ entry[1].type = Replace
            /\ Len(Holders(collections, mergedCollection[k][1])) = 3

\* the registry without contributor x: the other contributors in the same
\* relative order, each with the collection it had
RemovedExactly(before, after, x) ==
    /\ ~MapHas(after, x)
    /\ MapKeys(after) = SelectSeq(MapKeys(before), LAMBDA y : y # x)
    /\ \A i \in 1..Len(after) : after[i][2] = MapGet(before, after[i][1])

\* C9: delete(c) for a contributor that is not registered changes neither the
\* registry nor the merged collection; delete(c) for a registered contributor
\* removes exactly c and leaves the others and their relative order unchanged.
C9_DeleteRemovesExactlyOne ==
    [][\A x \in ExtensionIdentifiers :
          delete(x) =>
             IF MapHas(collections, x)
             THEN RemovedExactly(collections, collections', x)
             ELSE collections' = collections /\ mergedCollection' = mergedCollection]_vars

\* two contributors are registered and one is not, so that both a delete of
\* a registered contributor between two others' positions and a delete of an
\* unregistered one can be called on a non-empty merged collection
C9_Witness ==
    /\ Len(collections) = 2
    /\ ~MapHas(collections, "ext1")
    /\ Len(mergedCollection) = 2

(***************************************************************************)
(* Notions for the properties of applyToProcessEnvironment.                *)
(***************************************************************************)
SameCase(a, b) == toLowerCase(a) = toLowerCase(b)

\* the key of the environment a variable stands for: on a case-insensitive
\* platform the key of the handed-over environment that equals the variable
\* up to letter case (the last one in property order if there are several),
\* otherwise the variable itself
ResolvedKey(variable) ==
    IF isWindows /\ \E i \in 1..Len(snapshot) : SameCase(snapshot[i][1], variable)
    THEN snapshot[CHOOSE i \in 1..Len(snapshot) :
                      /\ SameCase(snapshot[i][1], variable)
                      /\ \A j \in (i + 1)..Len(snapshot) : ~SameCase(snapshot[j][1], variable)][1]
    ELSE variable

\* the value a key had when the environment was handed over, with absent,
\* null and empty read as the empty string
InitialValue(key) ==
    IF \E i \in 1..Len(snapshot) : snapshot[i][1] = key /\ ~snapshot[i][2].null
    THEN snapshot[CHOOSE i \in 1..Len(snapshot) : snapshot[i][1] = key][2].value
    ELSE ""

\* a value after the mutators of a list, in list order
RECURSIVE AfterMutators(_, _)
AfterMutators(value, mutators) ==
    IF mutators = <<>> THEN value
    ELSE AfterMutators(
             CASE Head(mutators).type = Replace -> Head(mutators).value
               [] Head(mutators).type = AppendType -> value \o Head(mutators).value
               [] Head(mutators).type = Prepend -> Head(mutators).value \o value,
             Tail(mutators))

\* the environment holds the string s under key
Holds(key, s) == \E i \in 1..Len(env) : env[i][1] = key /\ env[i][2] = Str(s)

MergedIndex(variable) == MapIndex(mergedCollection, variable)

\* no variable that comes later in the merged collection stands for the same key
NoLaterAlias(variable) ==
    \A k \in (MergedIndex(variable) + 1)..Len(mergedCollection) :
        ResolvedKey(mergedCollection[k][1]) # ResolvedKey(variable)

\* no other variable of the merged collection stands for the same key
NoAlias(variable) ==
    \A k \in 1..Len(mergedCollection) :
        mergedCollection[k][1] # variable =>
            ResolvedKey(mergedCollection[k][1]) # ResolvedKey(variable)

FirstHolderReplaces(variable) ==
    /\ Holders(collections, variable) # <<>>
    /\ Holders(collections, variable)[1][2].type = Replace

\* C5 (as stated): if the first contributor in registry order with a mutator
\* for V has a Replace with value a, the merged entry for V is the one-element
\* list of that Replace and apply sets V to a, whatever V held before.
C5_FirstReplaceWins ==
    \A v \in VariableNames :
        FirstHolderReplaces(v) =>
            /\ MapHas(mergedCollection, v)
            /\ MapGet(mergedCollection, v) = Tagged(<<Holders(collections, v)[1]>>)
            /\ applied => Holds(ResolvedKey(v), Holders(collections, v)[1][2].value)

\* C5 (amended): the same, the applied value holding provided no variable
\* that comes later in the merged collection stands for the same key of the
\* environment.
C5_FirstReplaceWinsUnlessAliased ==
    \A v \in VariableNames :
        FirstHolderReplaces(v) =>
            /\ MapHas(mergedCollection, v)
            /\ MapGet(mergedCollection, v) = Tagged(<<Holders(collections, v)[1]>>)
            /\ (applied /\ NoLaterAlias(v)) =>
                  Holds(ResolvedKey(v), Holders(collections, v)[1][2].value)

\* a Replace of the first of three holders has been applied over a string the
\* environment held under a key of another letter case
C5_Witness ==
    /\ applied
    /\ \E v \in VariableNames :
          /\ FirstHolderReplaces(v)
          /\ Len(Holders(collections, v)) = 3
          /\ NoLaterAlias(v)
          /\ ResolvedKey(v) # v
          /\ InitialValue(ResolvedKey(v)) = "x"

\* the entry of a variable in the merged collection (empty if it has none)
EntryOf(variable) ==
    IF MapHas(mergedCollection, variable) THEN MapGet(mergedCollection, variable) ELSE <<>>

Occurs(entry, x) == \E p \in 1..Len(entry) : entry[p] = x

Combined(a, mutator) ==
    IF mutator.type = AppendType THEN a \o mutator.value ELSE mutator.value \o a

\* C6 (as stated): if B, earlier in registry order, has an Append or Prepend
\* for V and A, later, has a Replace for V, then B's mutator is in the merged
\* entry after A's Replace, no contributor after A is in the entry, and apply
\* leaves V with the Replace value combined with B's value.
C6_EarlierMutatorFollowsReplace ==
    \A v \in VariableNames :
        LET h == Holders(collections, v)
            entry == EntryOf(v)
        IN  \A i \in 1..Len(h) : \A j \in (i + 1)..Len(h) :
                (h[i][2].type # Replace /\ h[j][2].type = Replace) =>
                    /\ \E p \in 1..Len(entry) : \E q \in (p + 1)..Len(entry) :
                          /\ entry[p] = Tagged(<<h[j]>>)[1]
                          /\ entry[q] = Tagged(<<h[i]>>)[1]
                    /\ \A k \in (j + 1)..Len(h) : ~Occurs(entry, Tagged(<<h[k]>>)[1])
                    /\ applied => Holds(ResolvedKey(v), Combined(h[j][2].value, h[i][2]))

\* C6 (amended): the same provided A's Replace is the first Replace for V in
\* registry order: then the entry is A's Replace followed by the mutators of
\* the contributors before A, latest first; and, provided no variable that
\* comes later in the merged collection stands for the same key, apply leaves
\* V with the Replace value to which these mutators were applied in that
\* order, which is a+b for Append b and b+a for Prepend b when B is the only
\* contributor before A with a mutator for V.
C6_EarlierMutatorsFollowFirstReplace ==
    \A v \in VariableNames :
        LET h == Holders(collections, v)
            entry == EntryOf(v)
        IN  \A i \in 1..Len(h) : \A j \in (i + 1)..Len(h) :
                (/\ h[i][2].type # Replace
                 /\ h[j][2].type = Replace
                 /\ \A k \in 1..(j - 1) : h[k][2].type # Replace) =>
                    /\ Len(entry) = j
                    /\ entry[1] = Tagged(<<h[j]>>)[1]
                    /\ entry[j - i + 1] = Tagged(<<h[i]>>)[1]
                    /\ \A k \in (j + 1)..Len(h) : ~Occurs(entry, Tagged(<<h[k]>>)[1])
                    /\ (applied /\ NoLaterAlias(v)) =>
                          /\ Holds(ResolvedKey(v),
                                   AfterMutators(h[j][2].value,
                                                 Reverse(Tagged(SubSeq(h, 1, j - 1)))))
                          /\ j = 2 => Holds(ResolvedKey(v), Combined(h[j][2].value, h[i][2]))

\* B's Prepend, A's Replace and a third contributor's mutator, in this order,
\* have been merged and applied over a string of the environment
C6_Witness ==
    /\ applied
    /\ \E v \in VariableNames :
          LET h == Holders(collections, v)
          IN  /\ Len(h) = 3
              /\ h[1][2].type = Prepend
              /\ h[2][2].type = Replace
              /\ NoLaterAlias(v)
              /\ InitialValue(ResolvedKey(v)) = "x"
              /\ Holds(ResolvedKey(v), h[1][2].value \o h[2][2].value)

\* the values of a list of holders joined in list order
RECURSIVE Joined(_)
Joined(holders) ==
    IF holders = <<>> THEN "" ELSE Head(holders)[2].value \o Joined(Tail(holders))

AllOfType(holders, type) ==
    /\ holders # <<>>
    /\ \A i \in 1..Len(holders) : holders[i][2].type = type

\* what C7 says of one variable of the merged collection after apply
AppliedInListOrder(variable) ==
    LET key == ResolvedKey(variable)
        h == Holders(collections, variable)
    IN  /\ Holds(key, AfterMutators(InitialValue(key), EntryOf(variable)))
        /\ AllOfType(h, AppendType) => Holds(key, InitialValue(key) \o Joined(Reverse(h)))
        /\ AllOfType(h, Prepend) => Holds(key, Joined(h) \o InitialValue(key))

HoldsAString(key) == \E i \in 1..Len(env) : env[i][1] = key /\ ~env[i][2].null

\* C7 (as stated): apply runs the mutators of each merged entry in list order
\* from the value of the handed-over environment (absent, null and empty read
\* as the empty string); so contributors c1..cn with Append values v1..vn and
\* value x give x+vn+...+v1, with Prepend values v1+...+vn+x; afterwards every
\* variable of the merged collection holds a string.
C7_AppliedInListOrder ==
    applied =>
        \A k \in 1..Len(mergedCollection) :
            /\ AppliedInListOrder(mergedCollection[k][1])
            /\ HoldsAString(ResolvedKey(mergedCollection[k][1]))

\* C7 (amended): the same for every variable of the merged collection that is
\* the only one to stand for its key of the environment; every variable of the
\* merged collection holds a string afterwards in any case.
C7_AppliedInListOrderUnlessAliased ==
    applied =>
        \A k \in 1..Len(mergedCollection) :
            /\ NoAlias(mergedCollection[k][1]) => AppliedInListOrder(mergedCollection[k][1])
            /\ HoldsAString(ResolvedKey(mergedCollection[k][1]))

\* three Appends have been applied to a key that held null, and the key holds
\* the three values, the latest contributor's first
C7_Witness ==
    /\ applied
    /\ \E v \in VariableNames :
          /\ AllOfType(Holders(collections, v), AppendType)
          /\ Len(Holders(collections, v)) = 3
          /\ NoAlias(v)
          /\ \E i \in 1..Len(snapshot) : snapshot[i][1] = ResolvedKey(v) /\ snapshot[i][2].null
          /\ Holds(ResolvedKey(v), Joined(Reverse(Holders(collections, v))))

\* the mutators, in the order of the merged collection, of the variables that
\* equal key up to letter case
RECURSIVE MutatorsUpToCase(_, _)
MutatorsUpToCase(entries, key) ==
    IF entries = <<>> THEN <<>>
    ELSE (IF SameCase(Head(entries)[1], key) THEN Head(entries)[2] ELSE <<>>)
             \o MutatorsUpToCase(Tail(entries), key)

\* the keys of an environment that equal variable up to letter case, in
\* property order
KeysUpToCase(e, variable) == SelectSeq(MapKeys(e), LAMBDA k : SameCase(k, variable))

\* all mutators of the merged variables spelt like key were applied to key
AppliedTo(key) ==
    Holds(key, AfterMutators(InitialValue(key), MutatorsUpToCase(mergedCollection, key)))

\* on a case-sensitive platform the mutators of a variable are applied to the
\* key spelt exactly like it
AppliedExactly(variable) ==
    Holds(variable, AfterMutators(InitialValue(variable), EntryOf(variable)))

\* C8 (as stated): on a case-insensitive platform, when the environment has a
\* key k that equals a merged variable V up to letter case, all mutators of V
\* are applied to k, no key spelt like V is added and k keeps its casing; on a
\* case-sensitive platform the mutators are applied to the key V exactly.
C8_AppliedToCaseMatchedKey ==
    applied =>
        \A n \in 1..Len(mergedCollection) :
            LET v == mergedCollection[n][1]
            IN  IF isWindows
                THEN \A i \in 1..Len(snapshot) :
                        SameCase(snapshot[i][1], v) =>
                            /\ AppliedTo(snapshot[i][1])
                            /\ KeysUpToCase(env, v) = KeysUpToCase(snapshot, v)
                ELSE AppliedExactly(v)

\* C8 (amended): the same with k the last key, in the property order of the
\* environment, among the keys that equal V up to letter case.
C8_AppliedToLastCaseMatchedKey ==
    applied =>
        \A n \in 1..Len(mergedCollection) :
            LET v == mergedCollection[n][1]
            IN  IF isWindows
                THEN (\E i \in 1..Len(snapshot) : SameCase(snapshot[i][1], v)) =>
                        /\ AppliedTo(ResolvedKey(v))
                        /\ KeysUpToCase(env, v) = KeysUpToCase(snapshot, v)
                ELSE AppliedExactly(v)

\* on a case-insensitive platform a variable was applied to the one key of the
\* environment, which is spelt in another letter case, and was not added
C8_Witness ==
    /\ applied
    /\ isWindows
    /\ Len(snapshot) = 1
    /\ \E n \in 1..Len(mergedCollection) :
          /\ mergedCollection[n][1] # snapshot[1][1]
          /\ SameCase(mergedCollection[n][1], snapshot[1][1])
          /\ ~MapHas(env, mergedCollection[n][1])
          /\ env[1][1] = snapshot[1][1]
          /\ env[1][2] # snapshot[1][2]

(***************************************************************************)
(* Further properties of the registry and of applyToProcessEnvironment.    *)
(***************************************************************************)
Names(list, variable) == \E i \in 1..Len(list) : list[i][1] = variable

\* the mutator a list gives last for a variable it names
LastFor(list, variable) ==
    list[CHOOSE i \in 1..Len(list) :
            /\ list[i][1] = variable
            /\ \A j \in (i + 1)..Len(list) : list[j][1] # variable][2]

\* a stored collection is the given flag and the given entries, the last
\* mutator standing for a variable the list names more than once
StoresGiven(coll, persistent, list) ==
    /\ coll.persistent = persistent
    /\ \A i \in 1..Len(coll.map) : \A j \in 1..Len(coll.map) :
          coll.map[i][1] = coll.map[j][1] => i = j
    /\ \A i \in 1..Len(coll.map) : Names(list, coll.map[i][1])
    /\ \A i \in 1..Len(list) :
          /\ MapHas(coll.map, list[i][1])
          /\ MapGet(coll.map, list[i][1]) = LastFor(list, list[i][1])

\* every list is stored as given, whichever extension hands it over and with
\* either flag
EveryListStoredAsGiven ==
    \A x \in ExtensionIdentifiers : \A p \in BOOLEAN :
        \A c \in SerializableCollections(x) :
            StoresGiven(translatedCollection(p, c), p, c)

\* what set(x, ...) can store for each extension
Translated ==
    [x \in ExtensionIdentifiers |->
        {translatedCollection(PersistentOf(x), c) : c \in SerializableCollections(x)}]

\* a registry after set has stored coll for x: one collection for x, namely
\* coll, and every other contributor with the collection it had
OverwrittenExactly(before, after, x, coll) ==
    /\ \E i \in 1..Len(after) :
          /\ after[i] = <<x, coll>>
          /\ \A j \in 1..Len(after) : after[j][1] = x => j = i
    /\ SelectSeq(after, LAMBDA e : e[1] # x) = SelectSeq(before, LAMBDA e : e[1] # x)

\* every mutator of a merged entry is the one its contributor stores now for
\* the variable, and no contributor occurs twice in an entry
MergedFromStored(colls, merged) ==
    \A k \in 1..Len(merged) :
        LET variable == merged[k][1]
            entry == merged[k][2]
        IN  /\ \A i \in 1..Len(entry) :
                  /\ MapHas(colls, entry[i].extensionIdentifier)
                  /\ MapHas(MapGet(colls, entry[i].extensionIdentifier).map, variable)
                  /\ MapGet(MapGet(colls, entry[i].extensionIdentifier).map, variable)
                        = EnvironmentVariableMutator(entry[i].value, entry[i].type)
            /\ \A i \in 1..Len(entry) : \A j \in 1..Len(entry) :
                  entry[i].extensionIdentifier = entry[j].extensionIdentifier => i = j

\* C11: after set(c, persistent, entries) the registry holds exactly one
\* collection for c, equal to the given flag and entries (the last mutator
\* winning for a variable named more than once), and every other contributor's
\* collection is unchanged (stated of every call that can be made in a
\* reachable state); and in every reachable state each mutator of a merged
\* entry for V is the one the registry stores for its contributor and V, and
\* no contributor occurs twice in one merged entry.
C11_SetOverwritesAndMergedIsCurrent ==
    /\ EveryListStoredAsGiven
    /\ \A x \in ExtensionIdentifiers : \A coll \in Translated[x] :
          OverwrittenExactly(collections, MapSet(collections, x, coll), x, coll)
    /\ MergedFromStored(collections, mergedCollection)

\* three contributors are registered, one of them without a mutator for a
\* variable whose merged entry holds the mutators of the other two
C11_Witness ==
    /\ Len(collections) = 3
    /\ \E v \in VariableNames :
          /\ Len(Holders(collections, v)) = 2
          /\ Len(EntryOf(v)) = 2
          /\ EntryOf(v)[1].extensionIdentifier # EntryOf(v)[2].extensionIdentifier

\* the merged collection with nothing skipped: for each of its variables the
\* mutators of all contributors, the latest contributor's first
Unskipped ==
    [k \in 1..Len(mergedCollection) |->
        <<mergedCollection[k][1],
          Reverse(Tagged(Holders(collections, mergedCollection[k][1])))>>]

\* C12: skipping the mutators of the contributors that come after a Replace
\* does not change the applied result: applying the merged collection gives
\* the environment that applying, for each variable, the full reversed list
\* of all contributors' mutators gives.
C12_SkippingChangesNothing ==
    applied => env = applyToProcessEnvironment(Unskipped, isWindows, snapshot)

\* a merged collection that left out the third holder's Prepend after the
\* second holder's Replace was applied to a key that held a string
C12_Witness ==
    /\ applied
    /\ \E v \in VariableNames :
          LET h == Holders(collections, v)
          IN  /\ Len(h) = 3
              /\ h[1][2].type = AppendType
              /\ h[2][2].type = Replace
              /\ h[3][2].type = Prepend
              /\ Len(EntryOf(v)) = 2
              /\ InitialValue(ResolvedKey(v)) = "x"
              /\ Unskipped # mergedCollection

\* in every merged entry the contributors stand in the reverse of their
\* registry iteration order
MergedOrderFollowsRegistry ==
    \A k \in 1..Len(mergedCollection) :
        LET entry == mergedCollection[k][2]
        IN  \A i \in 1..Len(entry) : \A j \in (i + 1)..Len(entry) :
                /\ MapHas(collections, entry[i].extensionIdentifier)
                /\ MapHas(collections, entry[j].extensionIdentifier)
                /\ RegistryIndex(collections, entry[i].extensionIdentifier)
                      > RegistryIndex(collections, entry[j].extensionIdentifier)

\* a step that does not shrink the registry (a set call) leaves a registered
\* contributor at its position and puts a contributor that was not registered
\* (never, or not since its delete) at the end
SetKeepsPlace ==
    \A x \in ExtensionIdentifiers :
        (MapHas(collections', x) /\ Len(collections') >= Len(collections)) =>
            IF MapHas(collections, x)
            THEN RegistryIndex(collections', x) = RegistryIndex(collections, x)
            ELSE /\ RegistryIndex(collections', x) = Len(collections')
                 /\ Len(collections') = Len(collections) + 1

\* C13: set(c, ...) for a contributor c that is already registered replaces its
\* collection but keeps c at its position in registry iteration order, so the
\* relative order of the contributors in every merged entry, which is the
\* reverse of their registry order, is unchanged by the re-set; a contributor
\* comes to stand at the end of the registry order only by a set call made
\* while it is not registered, that is after delete(c).
C13_ResetKeepsPosition ==
    /\ [](MergedOrderFollowsRegistry)
    /\ [][SetKeepsPlace]_vars

\* three contributors are registered in an order in which ext1 is not the
\* first (it was registered after another, or deleted and set again), and a
\* merged entry holds the mutators of all three
C13_Witness ==
    /\ Len(collections) = 3
    /\ collections[1][1] # "ext1"
    /\ \E v \in VariableNames :
          /\ Len(EntryOf(v)) = 3
          /\ EntryOf(v)[1].extensionIdentifier = collections[3][1]
          /\ EntryOf(v)[3].extensionIdentifier = collections[1][1]

\* no two keys of an environment differ only in letter case
NoCaseTwins(e) ==
    \A i \in 1..Len(e) : \A j \in 1..Len(e) : SameCase(e[i][1], e[j][1]) => i = j

\* two variables of the merged collection that differ only in letter case
\* find a key of the handed-over environment spelt like them
TwinsFindKey ==
    \A m \in 1..Len(mergedCollection) : \A n \in 1..Len(mergedCollection) :
        (m # n /\ SameCase(mergedCollection[m][1], mergedCollection[n][1])) =>
            \E i \in 1..Len(snapshot) : SameCase(snapshot[i][1], mergedCollection[m][1])

\* C14 (as stated): on a case-insensitive platform, if the handed-over
\* environment has no two keys that differ only in letter case, then after
\* apply it still has none, also when the merged collection holds two names
\* that differ only in case and the environment has neither.
C14_NoCaseTwinsAfterApply ==
    (applied /\ isWindows /\ NoCaseTwins(snapshot)) => NoCaseTwins(env)

\* C14 (amended): the same provided that, whenever the merged collection
\* holds two names that differ only in case, the handed-over environment has
\* a key spelt like them.
C14_NoCaseTwinsIfTwinsFindKey ==
    (applied /\ isWindows /\ NoCaseTwins(snapshot) /\ TwinsFindKey) => NoCaseTwins(env)

\* on a case-insensitive platform the merged collection holds both names, the
\* environment held one key spelt like them, and still holds just that key
C14_Witness ==
    /\ applied
    /\ isWindows
    /\ Len(mergedCollection) = 2
    /\ SameCase(mergedCollection[1][1], mergedCollection[2][1])
    /\ Len(snapshot) = 1
    /\ Len(env) = 1
    /\ env[1][1] = snapshot[1][1]
    /\ env[1][2] # snapshot[1][2]

\* some variable of the merged collection stands for key
ResolvedTo(key) ==
    \E n \in 1..Len(mergedCollection) : ResolvedKey(mergedCollection[n][1]) = key

\* the environment after the call against the one handed over: the keys it
\* had are still there, in their order and before any new key, a key no
\* merged variable stands for has the value it had, and a new key is one a
\* merged variable stands for
OnlyResolvedKeysChanged ==
    /\ Len(env) >= Len(snapshot)
    /\ \A i \in 1..Len(snapshot) :
          /\ env[i][1] = snapshot[i][1]
          /\ ~ResolvedTo(snapshot[i][1]) => env[i][2] = snapshot[i][2]
    /\ \A i \in (Len(snapshot) + 1)..Len(env) : ResolvedTo(env[i][1])

\* C15: apply changes only the keys of the environment that merged variables
\* resolve to: every other key keeps its value and no key is removed; and the
\* call leaves the merged collection and the registry unchanged.
C15_OnlyResolvedKeysChanged ==
    /\ [](applied => OnlyResolvedKeysChanged)
    /\ [][Apply => (mergedCollection' = mergedCollection /\ collections' = collections)]_vars

\* on a case-insensitive platform the environment held two keys that differ
\* only in case; the call changed the value of the one the merged variables
\* stand for and left the other as it was
C15_Witness ==
    /\ applied
    /\ isWindows
    /\ Len(snapshot) = 2
    /\ Len(env) = 2
    /\ mergedCollection # <<>>
    /\ env[1] = snapshot[1]
    /\ env[2][1] = snapshot[2][1]
    /\ env[2][2] # snapshot[2][2]

\* the step registers x (a set call for a contributor that is not registered)
Registers(x) == ~MapHas(collections, x) /\ MapHas(collections', x)

\* delete(x) called right after the step gives back the registry and the
\* merged collection the step started from
DeleteRestores(x) ==
    /\ MapDelete(collections', x) = collections
    /\ updateCollections(MapDelete(collections', x)) = mergedCollection

\* C16: for a contributor c that is not in the registry, set(c, persistent,
\* entries) followed immediately by delete(c) restores the registry (contents
\* and order) and the contents of the merged collection to what they were
\* before the set.
C16_SetThenDeleteRestores ==
    [][\A x \in ExtensionIdentifiers : Registers(x) => DeleteRestores(x)]_vars

\* two contributors are registered, the later one's Replace heading a merged
\* entry that also holds the earlier one's mutator, so that a delete of the
\* later one changes the merged collection back to the earlier one's alone
C16_Witness ==
    /\ Len(collections) = 2
    /\ \E v \in VariableNames :
          /\ Len(Holders(collections, v)) = 2
          /\ Holders(collections, v)[2][2].type = Replace
          /\ Len(EntryOf(v)) = 2
          /\ Len(EntryOf(v)) # Len(MapGet(updateCollections(MapDelete(collections, collections[2][1])), v))

====
